---- MODULE Spec2Model ----
(***************************************************************************)
(* github-exporter (src/main.go): one run of the command line tool.        *)
(*                                                                         *)
(* The run fetches the user's activity from the GitHub API, either per     *)
(* owned repository (fetchGitHubData) or from the event feed               *)
(* (fetchGitHubEvents), and hands the Export to one writer (outputJSON,    *)
(* outputCSV, outputStdOut).  The GitHub API and the file system are the   *)
(* environment: every call draws its answer (a page, an error, an I/O      *)
(* failure) from a small set.  Variables whose comment says "history" are  *)
(* not program state; they record what the environment answered.           *)
(***************************************************************************)
EXTENDS Integers, Sequences, FiniteSets, TLC

\* Bounds of the environment.
MaxRepos == 2      \* repositories on the page ListByAuthenticatedUser returns
MaxItems == 2      \* records on the page a per-repository listing returns
MaxFeed == 2       \* events in the whole feed, over all its pages
MaxCommits == 2    \* commits in one PushEvent
MaxPage == 3       \* highest page number a response names as next

VARIABLES
    mode,        \* --mode flag
    kind,        \* --kind flag
    format,      \* --format flag
    pc,          \* where the run is
    repos,       \* fetchGitHubData: repos
    i,           \* fetchGitHubData: index of the for-range loop over repos
    optPage,     \* fetchGitHubEvents: opt.Page (0: unset, the first page)
    pending,     \* fetchGitHubEvents: events of the current page not yet ranged over
    respNext,    \* fetchGitHubEvents: resp.NextPage of the current page
    export,      \* the Export being built
    err,         \* the error run returns ("nil" for none)
    file,        \* the output file: created, open, lines
    buffered,    \* lines still held in the csv.Writer's buffer
    fileLog,     \* operations on the output file, in order
    stdout,      \* lines printed on standard output
    exitCode,    \* -1 while running, then the exit status (2: panic)
    serial,      \* history: number of records and events the API has handed out
    expected,    \* history: what the events seen so far are to contribute
    truncated,   \* history: a bulk listing reported a further page
    apiErr,      \* history: an API call returned an error
    ioFault,     \* history: a file operation failed
    reqLog,      \* history: event pages requested, in order
    named,       \* history: NextPage of each event page received, in order
    writerCalls  \* history: writers invoked, in order

vars == <<mode, kind, format, pc, repos, i, optPage, pending, respNext, export,
          err, file, buffered, fileLog, stdout, exitCode, serial, expected,
          truncated, apiErr, ioFault, reqLog, named, writerCalls>>

fetchVars == <<repos, i, optPage, pending, respNext, export, serial, expected,
               truncated, reqLog, named>>
outVars == <<file, buffered, fileLog, stdout, writerCalls, ioFault>>
flagVars == <<mode, kind, format>>

Modes == {"events", ""}
Formats == {"json", "csv", ""}
SupportedKinds == {"commits", "pull_requests", "issues", "releases"}
Collections == SupportedKinds \cup {"watch"}
Kinds == Collections \cup {"bogus"}

Str(prefix, n) == prefix \o ToString(n)

EmptyExport ==
    [commits |-> <<>>, pull_requests |-> <<>>, issues |-> <<>>,
     releases |-> <<>>, watch |-> <<>>]

NoFile == [created |-> FALSE, open |-> FALSE, lines |-> <<>>]

----------------------------------------------------------------------------
(* What the API can answer.                                                *)

\* A repository of the listing: Name, and whether Owner (and its Login) is set.
RepoLists ==
    UNION { { [k \in 1..n |-> [name |-> Str("repo", k), hasOwner |-> own[k]]] :
              own \in [1..n -> BOOLEAN] } : n \in 0..MaxRepos }

\* A record of a per-repository listing. complete: every optional field the
\* code dereferences is present. prLink: PullRequestLinks is set (issues only).
ItemFlags(k) ==
    IF k = "issues" THEN BOOLEAN \X BOOLEAN ELSE BOOLEAN \X {FALSE}

ItemPages(k, base) ==
    UNION { { [j \in 1..n |-> [id |-> base + j,
                               complete |-> f[j][1],
                               prLink |-> f[j][2]]] :
              f \in [1..n -> ItemFlags(k)] } : n \in 0..MaxItems }

----------------------------------------------------------------------------
(* fetchGitHubData                                                          *)

NewCommit(repo, it) ==
    [repo |-> repo.name, sha |-> Str("sha", it.id), message |-> Str("msg", it.id),
     author |-> "user", date |-> it.id]

NewPullRequest(repo, it) ==
    [repo |-> repo.name, number |-> it.id, title |-> Str("title", it.id),
     state |-> "open", author |-> "user", action |-> "", date |-> it.id]

NewIssue(repo, it) ==
    [repo |-> repo.name, number |-> it.id, title |-> Str("title", it.id),
     state |-> "open", author |-> "user", action |-> "", date |-> it.id]

NewRelease(repo, it) ==
    [repo |-> repo.name, tag_name |-> Str("tag", it.id), name |-> Str("name", it.id),
     author |-> "user", action |-> "", date |-> it.id]

NewRecord(k, repo, it) ==
    CASE k = "commits" -> NewCommit(repo, it)
      [] k = "pull_requests" -> NewPullRequest(repo, it)
      [] k = "issues" -> NewIssue(repo, it)
      [] k = "releases" -> NewRelease(repo, it)

\* The inner for-range loops of the switch: one record appended per listed
\* record; a listed issue with pull-request links is passed over before any of
\* its fields is read; a nil field dereference panics.
RECURSIVE AppendRecords(_, _, _, _)
AppendRecords(exp, k, repo, items) ==
    IF items = <<>> THEN [export |-> exp, panic |-> FALSE]
    ELSE LET it == Head(items) IN
         IF k = "issues" /\ it.prLink
         THEN AppendRecords(exp, k, repo, Tail(items))
         ELSE IF ~it.complete
         THEN [export |-> exp, panic |-> TRUE]
         ELSE AppendRecords([exp EXCEPT ![k] = Append(@, NewRecord(k, repo, it))],
                            k, repo, Tail(items))

\* ReturnErr with the error dropped and the export kept (a `break` for the return).
ReturnErr_Swallowed(e) ==
    /\ pc' = "output"
    /\ err' = "nil"

\* `return export, err`: run returns the error at once.
ReturnErr(e) ==
    /\ pc' = "finish"
    /\ err' = e

\* A nil pointer dereference: the process dies with a stack trace.
Panic ==
    /\ pc' = "exited"
    /\ exitCode' = 2
    /\ err' = err

\* The NextPage a bulk listing can report with the page `page`: a further page
\* is named only behind a page that holds something.
ListingNext(page) == IF page = <<>> THEN {0} ELSE {0, 2}

\* Where the for-range loop over repos goes after index j.
RepoLoopPc(rs, j) == IF j > Len(rs) THEN "output" ELSE "repoLoop"

ListRepos ==
    /\ pc = "start"
    /\ mode # "events"
    /\ \/ /\ apiErr' = TRUE
          /\ ReturnErr("api")
          /\ UNCHANGED <<fetchVars, exitCode>>
       \/ \E rs \in RepoLists : \E next \in ListingNext(rs) :
            /\ repos' = rs
            /\ truncated' = (next # 0)
            /\ pc' = "getUser"
            /\ UNCHANGED <<i, optPage, pending, respNext, export, serial, expected,
                           reqLog, named, err, apiErr, exitCode>>
    /\ UNCHANGED <<flagVars, outVars>>

GetUser ==
    /\ pc = "getUser"
    /\ \/ /\ apiErr' = TRUE
          /\ ReturnErr("api")
       \/ /\ pc' = RepoLoopPc(repos, 1)
          /\ UNCHANGED <<err, apiErr>>
    /\ UNCHANGED <<flagVars, outVars, fetchVars, exitCode>>

\* One iteration of `for _, repo := range repos`.
FetchRepo ==
    /\ pc = "repoLoop"
    /\ LET repo == repos[i] IN
       \/ /\ kind \notin SupportedKinds
          /\ ReturnErr("unsupported")
          /\ UNCHANGED <<fetchVars, apiErr, exitCode>>
       \/ /\ kind \in SupportedKinds
          /\ ~repo.hasOwner
          /\ Panic
          /\ UNCHANGED <<fetchVars, apiErr>>
       \/ /\ kind \in SupportedKinds
          /\ repo.hasOwner
          /\ apiErr' = TRUE
          /\ ReturnErr("api")
          /\ UNCHANGED <<fetchVars, exitCode>>
       \/ /\ kind \in SupportedKinds
          /\ repo.hasOwner
          /\ \E items \in ItemPages(kind, serial) : \E next \in ListingNext(items) :
               LET r == AppendRecords(export, kind, repo, items) IN
               /\ serial' = serial + Len(items)
               /\ truncated' = (truncated \/ next # 0)
               /\ export' = r.export
               /\ IF r.panic
                  THEN Panic /\ i' = i
                  ELSE /\ i' = i + 1
                       /\ pc' = RepoLoopPc(repos, i + 1)
                       /\ UNCHANGED <<err, exitCode>>
          /\ UNCHANGED <<repos, optPage, pending, respNext, expected, reqLog, named,
                         apiErr>>
    /\ UNCHANGED <<flagVars, outVars>>

----------------------------------------------------------------------------
(* fetchGitHubEvents                                                        *)

EventTypes ==
    {"PushEvent", "PullRequestEvent", "IssuesEvent", "ReleaseEvent", "WatchEvent",
     "ForkEvent"}

\* The message flags of a PushEvent's commits: TRUE where Message is set.
CommitLists == UNION { [1..n -> BOOLEAN] : n \in 0..MaxCommits }

\* The event the feed holds after `base` earlier ones. actorIsUser: the actor's
\* login is the authenticated user's; parseOK: ParsePayload returns no error.
Events(base) ==
    { [id |-> base + 1, type |-> t, actorIsUser |-> a, parseOK |-> p, commits |-> c] :
      t \in EventTypes, a \in BOOLEAN, p \in BOOLEAN,
      c \in CommitLists }

EventsOfFeed(base) ==
    { e \in Events(base) : e.type # "PushEvent" => e.commits = <<>> }

EventCommit(ev, n) ==
    [repo |-> Str("evrepo", ev.id), sha |-> Str(Str("sha", ev.id) \o "-", n),
     message |-> Str(Str("msg", ev.id) \o "-", n), author |-> "", date |-> ev.id]

\* `for _, commit := range p.Commits`, from commit n on.
RECURSIVE AppendPushCommits(_, _, _)
AppendPushCommits(exp, ev, n) ==
    IF n > Len(ev.commits) THEN [export |-> exp, panic |-> FALSE]
    ELSE IF ~ev.commits[n] THEN [export |-> exp, panic |-> TRUE]
    ELSE AppendPushCommits([exp EXCEPT !.commits = Append(@, EventCommit(ev, n))],
                           ev, n + 1)

\* The body of `for _, event := range events` for one event.
HandleEvent(exp, ev) ==
    IF ~ev.actorIsUser THEN [export |-> exp, panic |-> FALSE]
    ELSE IF ~ev.parseOK THEN [export |-> exp, panic |-> FALSE]
    ELSE CASE ev.type = "PushEvent" -> AppendPushCommits(exp, ev, 1)
           [] ev.type = "PullRequestEvent" ->
                [export |-> [exp EXCEPT !.pull_requests = Append(@,
                     [repo |-> Str("evrepo", ev.id), number |-> ev.id,
                      title |-> Str("title", ev.id), state |-> "", author |-> "",
                      action |-> "opened", date |-> ev.id])],
                 panic |-> FALSE]
           [] ev.type = "IssuesEvent" ->
                [export |-> [exp EXCEPT !.issues = Append(@,
                     [repo |-> Str("evrepo", ev.id), number |-> ev.id,
                      title |-> Str("title", ev.id), state |-> "", author |-> "",
                      action |-> "opened", date |-> ev.id])],
                 panic |-> FALSE]
           [] ev.type = "ReleaseEvent" ->
                [export |-> [exp EXCEPT !.releases = Append(@,
                     [repo |-> Str("evrepo", ev.id), tag_name |-> Str("tag", ev.id),
                      name |-> Str("name", ev.id), author |-> "",
                      action |-> "published", date |-> ev.id])],
                 panic |-> FALSE]
           [] ev.type = "WatchEvent" ->
                [export |-> [exp EXCEPT !.watch = Append(@,
                     [repo |-> Str("evrepo", ev.id), author |-> "",
                      action |-> "started", date |-> ev.id])],
                 panic |-> FALSE]
           [] OTHER -> [export |-> exp, panic |-> FALSE]

\* What the claimed dispatch table has an event contribute (history).
Contribution(exp, ev) ==
    IF ~(ev.actorIsUser /\ ev.parseOK) THEN exp
    ELSE CASE ev.type = "PushEvent" ->
                [exp EXCEPT !.commits = @ \o
                    [n \in 1..Len(ev.commits) |->
                        [repo |-> Str("evrepo", ev.id),
                         sha |-> Str(Str("sha", ev.id) \o "-", n),
                         message |-> Str(Str("msg", ev.id) \o "-", n),
                         author |-> "", date |-> ev.id]]]
           [] ev.type = "PullRequestEvent" ->
                [exp EXCEPT !.pull_requests = Append(@,
                    [repo |-> Str("evrepo", ev.id), number |-> ev.id,
                     title |-> Str("title", ev.id), state |-> "", author |-> "",
                     action |-> "opened", date |-> ev.id])]
           [] ev.type = "IssuesEvent" ->
                [exp EXCEPT !.issues = Append(@,
                    [repo |-> Str("evrepo", ev.id), number |-> ev.id,
                     title |-> Str("title", ev.id), state |-> "", author |-> "",
                     action |-> "opened", date |-> ev.id])]
           [] ev.type = "ReleaseEvent" ->
                [exp EXCEPT !.releases = Append(@,
                    [repo |-> Str("evrepo", ev.id), tag_name |-> Str("tag", ev.id),
                     name |-> Str("name", ev.id), author |-> "",
                     action |-> "published", date |-> ev.id])]
           [] ev.type = "WatchEvent" ->
                [exp EXCEPT !.watch = Append(@,
                    [repo |-> Str("evrepo", ev.id), author |-> "",
                     action |-> "started", date |-> ev.id])]
           [] OTHER -> exp

\* The page numbers a response to the request for page p can name as next: 0
\* (none), or any later page up to MaxPage, so that every feed has an end.
NextPages(p) == {0} \cup ((p + 1)..MaxPage)

\* The page a request with opt.Page = p asks for.
PageAsked(p) == IF p = 0 THEN 1 ELSE p

\* The page to request after a page that named `next` (the tail of the for loop).
NextRequest(next) == next

\* The tail of the loop body: break on NextPage 0, else request the page named.
EndOfPage(next) ==
    IF next = 0
    THEN pc' = "output" /\ optPage' = optPage
    ELSE pc' = "listEvents" /\ optPage' = NextRequest(next)

GetUserEvents ==
    /\ pc = "start"
    /\ mode = "events"
    /\ \/ /\ apiErr' = TRUE
          /\ ReturnErr("api")
       \/ /\ pc' = "listEvents"
          /\ UNCHANGED <<err, apiErr>>
    /\ UNCHANGED <<flagVars, outVars, fetchVars, exitCode>>

ListEvents ==
    /\ pc = "listEvents"
    /\ reqLog' = Append(reqLog, PageAsked(optPage))
    /\ \/ /\ apiErr' = TRUE
          /\ ReturnErr("api")
          /\ UNCHANGED <<optPage, pending, respNext, named>>
       \/ \E n \in 0..(MaxFeed - serial), next \in NextPages(PageAsked(optPage)) :
            /\ pending' = n
            /\ respNext' = next
            /\ named' = Append(named, next)
            /\ IF n = 0 THEN EndOfPage(next)
                        ELSE pc' = "pageLoop" /\ optPage' = optPage
            /\ UNCHANGED <<err, apiErr>>
    /\ UNCHANGED <<flagVars, outVars, repos, i, export, serial, expected, truncated,
                   exitCode>>

\* One iteration of `for _, event := range events`.
ProcessEvent ==
    /\ pc = "pageLoop"
    /\ pending > 0
    /\ \E ev \in EventsOfFeed(serial) :
         LET r == HandleEvent(export, ev) IN
         /\ serial' = serial + 1
         /\ expected' = Contribution(expected, ev)
         /\ export' = r.export
         /\ IF r.panic
            THEN Panic /\ UNCHANGED <<pending, optPage>>
            ELSE /\ pending' = pending - 1
                 /\ IF pending = 1 THEN EndOfPage(respNext)
                                   ELSE pc' = pc /\ optPage' = optPage
                 /\ UNCHANGED <<err, exitCode>>
    /\ UNCHANGED <<flagVars, outVars, repos, i, respNext, truncated, reqLog, named,
                   apiErr>>

----------------------------------------------------------------------------
(* The writers                                                              *)

DateString(d) == Str("t", d)

\* generateFilePath, for an --output without a directory part (the default):
\* the date is the day of the run, written here as the layout's own date.
GenerateFilePath(k, f) ==
    CASE f = "json" -> ("github-" \o k) \o "-export-20060102.json"
      [] f = "csv" -> ("github-" \o k) \o "-export-20060102.csv"
      [] OTHER -> "stdout"

\* encoding/json on a slice: a nil slice is null, any other an array.
MarshalSlice(s) ==
    IF s = <<>> THEN [null |-> TRUE, elems |-> <<>>]
                ELSE [null |-> FALSE, elems |-> s]

\* json.MarshalIndent(export): one member per tagged field of Export.
MarshalIndent(exp) == [k \in Collections |-> MarshalSlice(exp[k])]

CSVHeader == <<"Type", "Repo", "ID", "Title", "State", "Author", "Date">>

CSVRow(k, r) ==
    CASE k = "commits" ->
           <<"Commit", r.repo, r.sha, r.message, "", r.author, DateString(r.date)>>
      [] k = "pull_requests" ->
           <<"PullRequest", r.repo, ToString(r.number), r.title, r.state, r.author,
             DateString(r.date)>>
      [] k = "issues" ->
           <<"Issue", r.repo, ToString(r.number), r.title, r.state, r.author,
             DateString(r.date)>>
      [] k = "releases" ->
           <<"Release", r.repo, r.tag_name, r.name, "", r.author, DateString(r.date)>>
      [] k = "watch" ->
           <<"Watch", r.repo, "", "", "", r.action, DateString(r.date)>>

\* CSVRows with the case "watch" missing from the switch.
CSVRows_NoWatch(exp, k) ==
    IF k \in SupportedKinds
    THEN [n \in 1..Len(exp[k]) |-> CSVRow(k, exp[k][n])]
    ELSE <<>>

\* The rows the switch of outputCSV hands to writer.Write, in order.
CSVRows(exp, k) ==
    IF k \in Collections
    THEN [n \in 1..Len(exp[k]) |-> CSVRow(k, exp[k][n])]
    ELSE <<>>

\* Every record outputCSV hands to writer.Write: the header, then the rows.
CSVLines(exp, k) == <<CSVHeader>> \o CSVRows(exp, k)

TableHeader(k) ==
    CASE k = "commits" -> <<"Date", "Repo", "SHA", "Author", "Message">>
      [] k = "pull_requests" -> <<"Date", "Repo", "Number", "Title", "State", "Author">>
      [] k = "issues" -> <<"Date", "Repo", "Number", "Title", "State", "Author">>
      [] k = "releases" -> <<"Date", "Repo", "Tag", "Name", "Author">>
      [] k = "watch" -> <<"Date", "Repo", "Action">>

TableRow(k, r) ==
    CASE k = "commits" -> <<DateString(r.date), r.repo, r.sha, r.author, r.message>>
      [] k = "pull_requests" ->
           <<DateString(r.date), r.repo, ToString(r.number), r.title, r.state, r.author>>
      [] k = "issues" ->
           <<DateString(r.date), r.repo, ToString(r.number), r.title, r.state, r.author>>
      [] k = "releases" -> <<DateString(r.date), r.repo, r.tag_name, r.name, r.author>>
      [] k = "watch" -> <<DateString(r.date), r.repo, r.action>>

\* The lines outputStdOut prints.
TableLines(exp, k) ==
    IF k \in Collections
    THEN <<TableHeader(k)>> \o [n \in 1..Len(exp[k]) |-> TableRow(k, exp[k][n])]
    ELSE <<>>

\* The value outputCSV returns when only the deferred writer.Flush() failed:
\* the flush runs after the return value is set, and its error is never read.
FlushFailureResult == "nil"

\* outputJSON: os.WriteFile opens (creating, truncating), writes, closes.
OutputJSON ==
    /\ pc = "output"
    /\ format = "json"
    /\ writerCalls' = Append(writerCalls, "json")
    /\ \/ /\ ioFault' = TRUE
          /\ err' = "io"
          /\ file' = file
          /\ fileLog' = fileLog \o <<"open-failed">>
       \/ /\ ioFault' = TRUE
          /\ err' = "io"
          /\ file' = [created |-> TRUE, open |-> FALSE, lines |-> <<>>]
          /\ fileLog' = fileLog \o <<"open", "write-failed", "close">>
       \/ /\ ioFault' = ioFault
          /\ err' = "nil"
          /\ file' = [created |-> TRUE, open |-> FALSE,
                      lines |-> <<MarshalIndent(export)>>]
          /\ fileLog' = fileLog \o <<"open", "write", "close">>
    /\ pc' = "finish"
    /\ UNCHANGED <<flagVars, fetchVars, buffered, stdout, exitCode, apiErr>>

\* outputCSV: os.Create, the buffered csv.Writer, and on return the deferred
\* writer.Flush() and then file.Close(). The buffer reaches the file when it
\* fills during a Write (after j lines, say) and when it is flushed.
OutputCSV ==
    /\ pc = "output"
    /\ format = "csv"
    /\ writerCalls' = Append(writerCalls, "csv")
    /\ LET lines == CSVLines(export, kind) IN
       \/ /\ ioFault' = TRUE
          /\ err' = "io"
          /\ file' = file
          /\ buffered' = <<>>
          /\ fileLog' = fileLog \o <<"open-failed">>
       \/ \E j \in 0..(Len(lines) - 1), n \in 1..Len(lines) :
            /\ j < n
            /\ ioFault' = TRUE
            /\ err' = "io"
            /\ file' = [created |-> TRUE, open |-> FALSE, lines |-> SubSeq(lines, 1, j)]
            /\ buffered' = SubSeq(lines, j + 1, n)
            /\ fileLog' = fileLog \o <<"open", "write-failed", "flush-failed", "close">>
       \/ \E j \in 0..(Len(lines) - 1) :
            /\ ioFault' = TRUE
            /\ err' = FlushFailureResult
            /\ file' = [created |-> TRUE, open |-> FALSE, lines |-> SubSeq(lines, 1, j)]
            /\ buffered' = SubSeq(lines, j + 1, Len(lines))
            /\ fileLog' = fileLog \o <<"open", "write", "flush-failed", "close">>
       \/ /\ ioFault' = ioFault
          /\ err' = "nil"
          /\ file' = [created |-> TRUE, open |-> FALSE, lines |-> lines]
          /\ buffered' = <<>>
          /\ fileLog' = fileLog \o <<"open", "write", "flush", "close">>
    /\ pc' = "finish"
    /\ UNCHANGED <<flagVars, fetchVars, stdout, exitCode, apiErr>>

\* outputStdOut: the tabwriter on os.Stdout, flushed on return; always nil.
OutputStdOut ==
    /\ pc = "output"
    /\ format \notin {"json", "csv"}
    /\ writerCalls' = Append(writerCalls, "stdout")
    /\ stdout' = stdout \o TableLines(export, kind)
    /\ err' = "nil"
    /\ pc' = "finish"
    /\ UNCHANGED <<flagVars, fetchVars, file, buffered, fileLog, ioFault, exitCode,
                   apiErr>>

SuccessText == "Export completed successfully. Output written to"

\* The end of run and of main: the success line and exit 0, or "Error:" and exit 1.
Finish ==
    /\ pc = "finish"
    /\ IF err = "nil"
       THEN /\ stdout' = Append(stdout, <<SuccessText, GenerateFilePath(kind, format)>>)
            /\ exitCode' = 0
       ELSE /\ stdout' = Append(stdout, <<"Error:", err>>)
            /\ exitCode' = 1
    /\ pc' = "exited"
    /\ UNCHANGED <<flagVars, fetchVars, err, file, buffered, fileLog, writerCalls,
                   ioFault, apiErr>>

----------------------------------------------------------------------------

Init ==
    /\ mode \in Modes
    /\ kind \in Kinds
    /\ format \in Formats
    /\ pc = "start"
    /\ repos = <<>>
    /\ i = 1
    /\ optPage = 0
    /\ pending = 0
    /\ respNext = 0
    /\ export = EmptyExport
    /\ err = "nil"
    /\ file = NoFile
    /\ buffered = <<>>
    /\ fileLog = <<>>
    /\ stdout = <<>>
    /\ exitCode = -1
    /\ serial = 0
    /\ expected = EmptyExport
    /\ truncated = FALSE
    /\ apiErr = FALSE
    /\ ioFault = FALSE
    /\ reqLog = <<>>
    /\ named = <<>>
    /\ writerCalls = <<>>

Next ==
    \/ ListRepos
    \/ GetUser
    \/ FetchRepo
    \/ GetUserEvents
    \/ ListEvents
    \/ ProcessEvent
    \/ OutputJSON
    \/ OutputCSV
    \/ OutputStdOut
    \/ Finish

Spec == Init /\ [][Next]_vars

----------------------------------------------------------------------------
(* What has been printed.                                                   *)

SuccessPrinted == \E n \in 1..Len(stdout) : stdout[n][1] = SuccessText

ErrorPrinted == \E n \in 1..Len(stdout) : stdout[n][1] = "Error:"

RecordsPrinted == \E n \in 1..Len(stdout) : stdout[n][1] \notin {SuccessText, "Error:"}

BulkMode == mode # "events"

\* The number of records of the collection that kind k selects.
Matching(k) == IF k \in Collections THEN Len(export[k]) ELSE 0

CSVType(k) ==
    CASE k = "commits" -> "Commit"
      [] k = "pull_requests" -> "PullRequest"
      [] k = "issues" -> "Issue"
      [] k = "releases" -> "Release"
      [] k = "watch" -> "Watch"

----------------------------------------------------------------------------
(* The claims.                                                              *)

\* C1: in bulk mode with a kind outside the four supported ones, whatever list
\* of repositories the API returned (the empty one too), the run fails with the
\* unsupported-kind error: no writer is invoked, nothing is written to a file
\* or the terminal, no success message. (API errors, which end the run with
\* their own error, are left out of the statement.)
C1_UnsupportedKindAlwaysFails ==
    (BulkMode /\ kind \notin SupportedKinds /\ ~apiErr) =>
        /\ writerCalls = <<>>
        /\ ~file.created
        /\ ~RecordsPrinted
        /\ ~SuccessPrinted
        /\ pc = "exited" => (err = "unsupported" /\ exitCode = 1)

\* C2: once any API call of the run has returned an error (in either mode, a
\* later event page included), no writer is invoked, no output file exists, no
\* record is printed and the success message is never printed: the run ends
\* with the API error.
C2_FetchErrorAllOrNothing ==
    apiErr =>
        /\ writerCalls = <<>>
        /\ ~file.created
        /\ file.lines = <<>>
        /\ ~RecordsPrinted
        /\ ~SuccessPrinted
        /\ pc \in {"finish", "exited"}
        /\ err = "api"
        /\ pc = "exited" => (exitCode = 1 /\ ErrorPrinted)

\* C2 witness: an event page failed after an earlier page had succeeded and
\* contributed records, and the run has ended.
C2_Witness ==
    /\ apiErr
    /\ mode = "events"
    /\ Len(reqLog) >= 2
    /\ export # EmptyExport
    /\ pc = "exited"

\* C3: for a supported kind and an error-free API, the Export the bulk fetcher
\* returns holds the records of every owned repository and of every page of
\* each listing: no listing it made reported a further page that was never
\* requested; and the records are in repository order, then page order.
C3_EveryPageExported ==
    (BulkMode /\ kind \in SupportedKinds /\ ~apiErr /\ pc \in {"output", "finish"}) =>
        /\ ~truncated
        /\ \A m, n \in 1..Len(export[kind]) :
              m < n => export[kind][m].date < export[kind][n].date

\* C4: the JSON document written holds all five collections, and a collection
\* without records is rendered as an empty array, never as null.
C4_EmptyCollectionsAreArrays ==
    (format = "json" /\ file.lines # <<>>) =>
        LET doc == file.lines[1] IN
        /\ DOMAIN doc = Collections
        /\ \A k \in Collections :
              /\ ~doc[k].null
              /\ doc[k].elems = export[k]

\* C5: when the output file could not be created, or a write to it failed (a
\* failure at the flush of the CSV buffer included), the run ends with the
\* error outcome and without the success message.
C5_IOFailureIsReported ==
    (ioFault /\ pc \in {"finish", "exited"}) =>
        /\ err # "nil"
        /\ ~SuccessPrinted
        /\ pc = "exited" => exitCode = 1

\* C6: every run ends with the success line and status 0 or with one Error line
\* and status 1, whatever optional fields the API's records lack: never with a
\* crash.
C6_NoRunCrashes ==
    pc = "exited" =>
        \/ exitCode = 0 /\ SuccessPrinted /\ ~ErrorPrinted
        \/ exitCode = 1 /\ ErrorPrinted /\ ~SuccessPrinted

\* C7: in event mode the Export is, at every point, what the events ranged over
\* so far contribute by the dispatch table, in feed order: nothing for a
\* foreign or unparseable event, one Commit (author empty, date of the event)
\* per commit of a PushEvent, one record for each of the four other types.
C7_EventContributions ==
    mode = "events" => export = expected

\* C8: when outputCSV ran with no I/O failure, the file holds exactly 1 + N
\* lines, N the number of records of the collection matching kind (0 for a kind
\* that matches none): the 7-column header, then one row per record in
\* collection order; and the writer reported no error.
C8_CSVLines ==
    (writerCalls = <<"csv">> /\ ~ioFault) =>
        /\ err = "nil"
        /\ Len(file.lines) = 1 + Matching(kind)
        /\ file.lines[1] = <<"Type", "Repo", "ID", "Title", "State", "Author", "Date">>
        /\ \A n \in 1..Matching(kind) :
              /\ Len(file.lines[n + 1]) = 7
              /\ file.lines[n + 1][1] = CSVType(kind)
              /\ file.lines[n + 1][2] = export[kind][n].repo
              /\ file.lines[n + 1][7] = DateString(export[kind][n].date)

\* C8 witness: a CSV file of a header and two rows of watch records, written
\* with no I/O failure.
C8_Witness ==
    /\ writerCalls = <<"csv">>
    /\ ~ioFault
    /\ kind = "watch"
    /\ Len(file.lines) = 3
    /\ pc = "exited"

\* C9: a run that prints the success message for json or csv has opened the
\* file, written all records, flushed what was buffered to the file and closed
\* the handle, in that order; nothing is still buffered and the handle is not
\* open.
C9_FlushedAndClosedBeforeSuccess ==
    (SuccessPrinted /\ format \in {"json", "csv"}) =>
        /\ fileLog \in {<<"open", "write", "close">>,
                        <<"open", "write", "flush", "close">>}
        /\ buffered = <<>>
        /\ ~file.open
        /\ file.created

\* C10: the first request is for the first page; every later request follows a
\* page that named a next page and asks for exactly that page; and a run over a
\* feed without fetch errors ends only after the page that named no next page
\* has been received and all its events ranged over.
C10_Pagination ==
    mode = "events" =>
        /\ reqLog # <<>> => reqLog[1] = 1
        /\ \A n \in 2..Len(reqLog) : named[n - 1] # 0 /\ reqLog[n] = named[n - 1]
        /\ (pc = "exited" /\ ~apiErr) =>
              /\ Len(named) = Len(reqLog)
              /\ named # <<>>
              /\ named[Len(named)] = 0
              /\ pending = 0

----------------------------------------------------------------------------
(* C7, C9 and C10 fail only on the runs on which C6 or C5 fails. With those  *)
(* runs set aside (a nil dereference; a failed flush that goes unreported)  *)
(* the three statements hold.                                               *)

\* C7 on the runs that do not panic.
EventContributionsUnlessPanic ==
    (mode = "events" /\ exitCode # 2) => export = expected

\* C9 on the runs without an I/O failure.
FlushedAndClosedUnlessIOFailure ==
    (SuccessPrinted /\ format \in {"json", "csv"} /\ ~ioFault) =>
        /\ fileLog \in {<<"open", "write", "close">>,
                        <<"open", "write", "flush", "close">>}
        /\ buffered = <<>>
        /\ ~file.open
        /\ file.created

\* C10 on the runs that do not panic.
PaginationUnlessPanic ==
    mode = "events" =>
        /\ reqLog # <<>> => reqLog[1] = 1
        /\ \A n \in 2..Len(reqLog) : named[n - 1] # 0 /\ reqLog[n] = named[n - 1]
        /\ (pc = "exited" /\ ~apiErr /\ exitCode # 2) =>
              /\ Len(named) = Len(reqLog)
              /\ named # <<>>
              /\ named[Len(named)] = 0
              /\ pending = 0
====
